---- MODULE Spec2Model ----
(***************************************************************************)
(* EcdsaChip::verify of src/circuit/ecdsa.rs as a state machine.           *)
(*                                                                         *)
(* verify is a straight line of twelve chip calls, each followed by `?`.   *)
(* One action models one line (the call, the cursor it advances, and the   *)
(* early return of `?`).  The integer chip and the curve chip are not part *)
(* of this file of the repository: they are modelled from their interface  *)
(* as ordinary modular and curve arithmetic over a small prime-order       *)
(* curve, so that every value the pipeline computes is a real value.       *)
(***************************************************************************)
EXTENDS Integers, Sequences, FiniteSets, TLC

VARIABLES
    window_size,  \* TestCircuitEcdsaVerify.window_size, given to assign_aux
    pc,           \* position of the synthesis pass: "idle", a line of verify, "done"
    sig,          \* AssignedEcdsaSig: [r, s]
    pk,           \* AssignedPublicKey.point
    msg_hash,     \* the assigned message hash
    fault,        \* what the chip layer reports beyond the values (see Faults)
    loc,          \* the locals of verify
    offset,       \* the row cursor (*offset)
    entry,        \* the cursor when verify was entered
    log,          \* the chip calls issued by the current verify call
    result,       \* what verify returned: "none", "Ok" or the error
    calls,        \* verify calls made on this cursor
    prev          \* summary of the previous verify call on this cursor

vars == <<window_size, pc, sig, pk, msg_hash, fault, loc, offset, entry, log,
          result, calls, prev>>

-----------------------------------------------------------------------------
(* Bounds of the model.                                                    *)

MaxWindow == 2
MaxCalls == 2

-----------------------------------------------------------------------------
(* The curve E: y^2 = x^3 + 7 over F_13, a group of prime order 7.         *)
(* As for the curve of the test (EqAffine), the base field is larger than  *)
(* the scalar field, so reducing an x-coordinate modulo n changes it.      *)

E == [p |-> 13, n |-> 7, b |-> 7, generator |-> <<8, 5>>]

ScalarExt == 0 .. (E.n - 1)
Base == 0 .. (E.p - 1)

\* The identity in affine coordinates (not a solution of the curve equation).
Identity == <<0, 0>>

OnCurve(P) == (P[2] * P[2]) % E.p = (P[1] * P[1] * P[1] + E.b) % E.p

CurvePoints == {P \in Base \X Base : OnCurve(P)}

ModInv(a, m) == CHOOSE t \in 0 .. (m - 1) : (a * t) % m = 1

\* The group law, in affine coordinates.
PointAdd(P, Q) ==
    IF P = Identity THEN Q
    ELSE IF Q = Identity THEN P
    ELSE IF P[1] = Q[1] /\ (P[2] + Q[2]) % E.p = 0 THEN Identity
    ELSE LET lam == IF P = Q
                    THEN (3 * P[1] * P[1] * ModInv((2 * P[2]) % E.p, E.p)) % E.p
                    ELSE ((Q[2] - P[2] + E.p)
                          * ModInv((Q[1] - P[1] + E.p) % E.p, E.p)) % E.p
             x3 == (lam * lam + 2 * E.p - P[1] - Q[1]) % E.p
             y3 == (lam * (P[1] + E.p - x3) + E.p - P[2]) % E.p
         IN <<x3, y3>>

AddTable == [P \in CurvePoints \cup {Identity}, Q \in CurvePoints \cup {Identity}
                |-> PointAdd(P, Q)]

\* generator * sk, pk.mul(u2): the group's scalar multiplication.
RECURSIVE ScalarTimes(_, _)
ScalarTimes(k, P) == IF k = 0 THEN Identity ELSE AddTable[P, ScalarTimes(k - 1, P)]

\* ScalarExt::from_bytes_wide of the bytes of a base-field element.
OnScalar(x) == x % E.n

\* The signature the test builds from a key, a hash and a nonce.
Sign(sk, m_hash, randomness) ==
    LET sig_point == ScalarTimes(randomness, E.generator)
        x_bytes_on_n == OnScalar(sig_point[1])
        randomness_inv == ModInv(randomness, E.n)
        sig_s == (randomness_inv * (m_hash + x_bytes_on_n * sk)) % E.n
    IN [r |-> x_bytes_on_n, s |-> sig_s]

-----------------------------------------------------------------------------
(* The chips, from their interface.  A chip call yields                    *)
(*   val:    the value it assigns,                                         *)
(*   report: "ok" or the kind of failure the chip reports,                 *)
(*   raised: whether the report is the Err of the call's Result (a report  *)
(*           that is not raised travels in the returned value).            *)

Done(v) == [val |-> v, report |-> "ok", raised |-> FALSE]
Failed(kind) == [val |-> 0, report |-> kind, raised |-> TRUE]

RECURSIVE Pow(_, _, _)
Pow(a, e, m) == IF e = 0 THEN 1 % m ELSE (a * Pow(a, e - 1, m)) % m

IntegerAssertNotZero(a) == IF a # 0 THEN Done(0) ELSE Failed("ZeroValueError")

\* invert(element) -> (inverse, ok|fail): the flag is part of the value.
IntegerInvert(a) ==
    [val |-> Pow(a, E.n - 2, E.n),
     report |-> IF a % E.n # 0 THEN "ok" ELSE "NonInvertibleError",
     raised |-> FALSE]

IntegerMul(a, b) == Done((a * b) % E.n)

BaseReduce(a) == Done(a % E.p)

ScalarReduce(a) == Done(a % E.n)

IntegerAssertStrictEqual(a, b) == IF a = b THEN Done(0) ELSE Failed("SynthesisError")

EccAssignPoint(P) == Done(P)

\* The sum is assigned as the chip's arithmetic leaves it: each coordinate is
\* the canonical residue plus `slack` times the base-field modulus (an integer
\* that was not reduced yet); get_x hands that integer on as it is.
Slack == {0, 1}

EccAdd(P, Q, slack) ==
    LET sum == AddTable[P, Q]
    IN Done(<<sum[1] + slack * E.p, sum[2] + slack * E.p>>)

\* Windowed double-and-add: the scalar is cut into windows of `window` bits,
\* most significant first; each window costs `window` doublings and one
\* addition of a table entry.
ScalarBits == CHOOSE t \in 1 .. 16 : 2 ^ t >= E.n /\ 2 ^ (t - 1) < E.n

NumberOfWindows(window) == (ScalarBits + window - 1) \div window

WindowDigit(k, j, window) == (k \div ((2 ^ window) ^ j)) % (2 ^ window)

RECURSIVE Doublings(_, _)
Doublings(P, t) == IF t = 0 THEN P ELSE Doublings(AddTable[P, P], t - 1)

RECURSIVE WindowTable(_, _)
WindowTable(P, d) == IF d = 0 THEN Identity ELSE AddTable[WindowTable(P, d - 1), P]

RECURSIVE WindowedAcc(_, _, _, _)
WindowedAcc(P, k, window, j) ==
    IF j = NumberOfWindows(window) THEN Identity
    ELSE AddTable[Doublings(WindowedAcc(P, k, window, j + 1), window),
                  WindowTable(P, WindowDigit(k, j, window))]

EccMul(P, k, window) == Done(WindowedAcc(P, k, window, 0))

\* Rows a chip call consumes: a function of the operation and the circuit
\* shape, never of the witness.
Rows(op, window) ==
    IF op = "ecc.mul" THEN 2 * NumberOfWindows(window)
    ELSE IF op \in {"ecc.add", "ecc.assign_point"} THEN 2
    ELSE 1

\* What the chip layer can report that the values do not decide:
\*   SynthesisError from any call (malformed witness, limb mismatch, ...);
\*   NonInvertibleError from invert (the witness of s is inconsistent with
\*   the assertion made on it): the inverse is then a substitute.
NoFault == [at |-> 0, kind |-> "none", sub |-> 0]

Substitutes == {0, 1}

NumberOfCalls == 12

Faults ==
    {NoFault}
    \cup {[at |-> i, kind |-> "SynthesisError", sub |-> 0] : i \in 1 .. NumberOfCalls}
    \cup {[at |-> 3, kind |-> "NonInvertibleError", sub |-> v] : v \in Substitutes}

Chip(i, natural) ==
    IF fault.at # i THEN natural
    ELSE IF fault.kind = "SynthesisError" THEN Failed("SynthesisError")
    ELSE [val |-> fault.sub, report |-> fault.kind, raised |-> FALSE]

-----------------------------------------------------------------------------
(* verify                                                                  *)

NoLocals ==
    [s_inv |-> -1, u1 |-> -1, u2 |-> -1, e_gen |-> <<-1, -1>>, g1 |-> <<-1, -1>>,
     g2 |-> <<-1, -1>>, q |-> <<-1, -1>>, q_x_reduced_in_q |-> -1,
     q_x_reduced_in_r |-> -1]

\* (A variant that multiplies before it inverts.)
VerifyLinesInvertLate ==
    <<"L85", "L86", "L92", "L89", "L95", "L98", "L99", "L100",
      "L101", "L106", "L107", "L110", "L112">>

\* The lines of verify that call a chip, in program order, and the line after.
VerifyLines == <<"L85", "L86", "L89", "L92", "L95", "L98", "L99", "L100",
                 "L101", "L106", "L107", "L110", "L112">>

\* (A variant that picks a narrower window for a short scalar.)
G1WindowByScalar == IF loc.u1 < 2 ^ (ScalarBits - 1) THEN 1 ELSE 2

\* The window size verify gives to the two scalar multiplications.
G1Window == 2
G2Window == 2

\* (Variants: the second assertion made on r again; u2 computed from s; the
\* public key multiplied by u1; r compared with itself.)
EqualOperandsSame == <<sig.r, sig.r>>
SOperandIsR == <<sig.r>>
U2OperandsFromS == <<sig.s, loc.s_inv>>
G2OperandsWithU1 == <<pk, loc.u1>>

\* The operands verify gives to each chip call.
ROperand == <<sig.r>>
SOperand == <<sig.s>>
InvertOperand == <<sig.s>>
U1Operands == <<msg_hash, loc.s_inv>>
U2Operands == <<sig.r, loc.s_inv>>
G1Operands == <<loc.e_gen, loc.u1>>
G2Operands == <<pk, loc.u2>>
QOperands == <<loc.g1, loc.g2>>
BaseReduceOperand == <<loc.q[1]>>
ScalarReduceOperand == <<loc.q_x_reduced_in_q>>
EqualOperands == <<loc.q_x_reduced_in_r, sig.r>>

\* (A variant that gives every call a copy of the cursor taken at entry.)
CursorCopied == entry

\* The cursor a chip call is given.
Cursor == offset

\* The statement that follows `line`.
Following(line) ==
    VerifyLines[(CHOOSE i \in DOMAIN VerifyLines : VerifyLines[i] = line) + 1]

\* `?`: an Err ends verify with that error; anything else goes on.
Question(res, line) ==
    IF res.raised
    THEN pc' = "done" /\ result' = res.report
    ELSE pc' = Following(line) /\ result' = result

\* One chip call at `line`, with `?`.
Issue(line, op, args, window, res) ==
    /\ pc = line
    /\ \E adv \in (IF res.raised THEN {0, Rows(op, window)} ELSE {Rows(op, window)}) :
          /\ offset' = Cursor + adv
          /\ log' = Append(log, [op |-> op, args |-> args, window |-> window,
                                 out |-> res.val, report |-> res.report,
                                 raised |-> res.raised,
                                 before |-> Cursor, after |-> Cursor + adv])
    /\ Question(res, line)
    /\ UNCHANGED <<window_size, sig, pk, msg_hash, fault, entry, calls, prev>>

Bind(res, new) == loc' = IF res.raised THEN loc ELSE new

\* scalar_chip.assert_not_zero(region, &sig.r, offset)?;
AssertRNotZero ==
    LET res == Chip(1, IntegerAssertNotZero(ROperand[1]))
    IN Issue("L85", "scalar.assert_not_zero", ROperand, 0, res) /\ Bind(res, loc)

\* scalar_chip.assert_not_zero(region, &sig.s, offset)?;
AssertSNotZero ==
    LET res == Chip(2, IntegerAssertNotZero(SOperand[1]))
    IN Issue("L86", "scalar.assert_not_zero", SOperand, 0, res) /\ Bind(res, loc)

\* let (s_inv, _) = scalar_chip.invert(region, &sig.s, offset)?;
InvertS ==
    LET res == Chip(3, IntegerInvert(InvertOperand[1]))
    IN Issue("L89", "scalar.invert", InvertOperand, 0, res)
       /\ Bind(res, [loc EXCEPT !.s_inv = res.val])

\* let u1 = scalar_chip.mul(region, &msg_hash, &s_inv, offset)?;
MulU1 ==
    LET res == Chip(4, IntegerMul(U1Operands[1], U1Operands[2]))
    IN Issue("L92", "scalar.mul", U1Operands, 0, res)
       /\ Bind(res, [loc EXCEPT !.u1 = res.val])

\* let u2 = scalar_chip.mul(region, &sig.r, &s_inv, offset)?;
MulU2 ==
    LET res == Chip(5, IntegerMul(U2Operands[1], U2Operands[2]))
    IN Issue("L95", "scalar.mul", U2Operands, 0, res)
       /\ Bind(res, [loc EXCEPT !.u2 = res.val])

\* let e_gen = ecc_chip.assign_point(region, Some(E::generator()), offset)?;
AssignGenerator ==
    LET res == Chip(6, EccAssignPoint(E.generator))
    IN Issue("L98", "ecc.assign_point", <<E.generator>>, 0, res)
       /\ Bind(res, [loc EXCEPT !.e_gen = res.val])

\* let g1 = ecc_chip.mul(region, &e_gen, &u1, 2, offset)?;
MulG1 ==
    LET res == Chip(7, EccMul(G1Operands[1], G1Operands[2], G1Window))
    IN Issue("L99", "ecc.mul", G1Operands, G1Window, res)
       /\ Bind(res, [loc EXCEPT !.g1 = res.val])

\* let g2 = ecc_chip.mul(region, &pk.point, &u2, 2, offset)?;
MulG2 ==
    LET res == Chip(8, EccMul(G2Operands[1], G2Operands[2], G2Window))
    IN Issue("L100", "ecc.mul", G2Operands, G2Window, res)
       /\ Bind(res, [loc EXCEPT !.g2 = res.val])

\* let q = ecc_chip.add(region, &g1, &g2, offset)?;
AddQ ==
    \E slack \in Slack :
        LET res == Chip(9, EccAdd(QOperands[1], QOperands[2], slack))
        IN Issue("L101", "ecc.add", QOperands, 0, res)
           /\ Bind(res, [loc EXCEPT !.q = res.val])

\* let q_x = q.get_x();
\* let q_x_reduced_in_q = base_chip.reduce(region, &q_x, offset)?;
ReduceInBase ==
    LET res == Chip(10, BaseReduce(BaseReduceOperand[1]))
    IN Issue("L106", "base.reduce", BaseReduceOperand, 0, res)
       /\ Bind(res, [loc EXCEPT !.q_x_reduced_in_q = res.val])

\* let q_x_reduced_in_r = scalar_chip.reduce(region, &q_x_reduced_in_q, offset)?;
ReduceInScalar ==
    LET res == Chip(11, ScalarReduce(ScalarReduceOperand[1]))
    IN Issue("L107", "scalar.reduce", ScalarReduceOperand, 0, res)
       /\ Bind(res, [loc EXCEPT !.q_x_reduced_in_r = res.val])

\* scalar_chip.assert_strict_equal(region, &q_x_reduced_in_r, &sig.r, offset)?;
AssertXEqualsR ==
    LET res == Chip(12, IntegerAssertStrictEqual(EqualOperands[1], EqualOperands[2]))
    IN Issue("L110", "scalar.assert_strict_equal", EqualOperands, 0, res)
       /\ Bind(res, loc)

\* Ok(())
ReturnOk ==
    /\ pc = "L112"
    /\ pc' = "done"
    /\ result' = "Ok"
    /\ UNCHANGED <<window_size, sig, pk, msg_hash, fault, loc, offset, entry, log,
                   calls, prev>>

Verify ==
    \/ AssertRNotZero
    \/ AssertSNotZero
    \/ InvertS
    \/ MulU1
    \/ MulU2
    \/ AssignGenerator
    \/ MulG1
    \/ MulG2
    \/ AddQ
    \/ ReduceInBase
    \/ ReduceInScalar
    \/ AssertXEqualsR
    \/ ReturnOk

-----------------------------------------------------------------------------
(* The caller: region 0 of TestCircuitEcdsaVerify::synthesize.             *)

\* Witnesses a caller can assign: any scalars, any point of the group.
Witnesses ==
    [r : ScalarExt, s : ScalarExt, pk : CurvePoints, msg_hash : ScalarExt]

\* Rows of the three assign_integer calls and the assign_point call that
\* precede verify in the region.
AssignRows == 3 * Rows("scalar.assign_integer", 0) + Rows("ecc.assign_point", 0)

NoPrev == [ops |-> <<>>, result |-> "none", sig |-> [r |-> 0, s |-> 0], exit |-> 0]

\* The region closure up to the call of verify: assign r, s, the public key
\* and the hash, then enter verify with the same cursor.
CallVerify(w, f, from) ==
    /\ sig' = [r |-> w.r, s |-> w.s]
    /\ pk' = w.pk
    /\ msg_hash' = w.msg_hash
    /\ fault' = f
    /\ loc' = NoLocals
    /\ log' = <<>>
    /\ result' = "none"
    /\ offset' = from + AssignRows
    /\ entry' = from + AssignRows
    /\ pc' = "L85"
    /\ calls' = calls + 1
    /\ UNCHANGED window_size

\* let offset = &mut 0; ... ecdsa_chip.verify(&mut region, &sig, &pk_assigned, &msg_hash, offset)
Synthesize(W, F) ==
    /\ pc = "idle"
    /\ \E w \in W, f \in F : CallVerify(w, f, 0)
    /\ UNCHANGED prev

Init ==
    /\ window_size \in 1 .. MaxWindow
    /\ pc = "idle"
    /\ sig = [r |-> 0, s |-> 0]
    /\ pk = Identity
    /\ msg_hash = 0
    /\ fault = NoFault
    /\ loc = NoLocals
    /\ offset = 0
    /\ entry = 0
    /\ log = <<>>
    /\ result = "none"
    /\ calls = 0
    /\ prev = NoPrev

\* One circuit, one verification call, as in the test.
Next ==
    \/ Synthesize(Witnesses, Faults)
    \/ Verify

Spec == Init /\ [][Next]_vars

\* A host that verifies several signatures in one region: the next call is
\* made with the cursor the previous one left.
Summary ==
    [ops |-> [i \in DOMAIN log |-> <<log[i].op, log[i].window>>],
     result |-> result, sig |-> sig, exit |-> offset]

VerifyAgain(W, F) ==
    /\ pc = "done"
    /\ calls < MaxCalls
    /\ \E w \in W, f \in F : CallVerify(w, f, offset)
    /\ prev' = Summary

\* The signatures the host checks: one key and one hash, and signatures that
\* are valid, zero in r, zero in s, or wrong.
SharedWitnesses ==
    [r : {0, 1, 4}, s : {0, 1, 5}, pk : {ScalarTimes(3, E.generator)}, msg_hash : {5}]

\* What the chip layer reports to that host: nothing, or a failure of the
\* inversion or of the first scalar multiplication.
SharedFaults == {f \in Faults : f.at \in {0, 3, 7}}

NextShared ==
    \/ Synthesize(SharedWitnesses, SharedFaults)
    \/ VerifyAgain(SharedWitnesses, SharedFaults)
    \/ Verify

SpecShared == Init /\ [][NextShared]_vars

-----------------------------------------------------------------------------
(* Reference values, computed off-circuit as the test does (lines 216-257) *)

\* Every (r, s, pk, msg_hash) the signing procedure produces, with r, s # 0.
SignedTuples ==
    {t \in {[r |-> Sign(sk, h, k).r, s |-> Sign(sk, h, k).s,
             pk |-> ScalarTimes(sk, E.generator), msg_hash |-> h] :
                sk \in 1 .. (E.n - 1), h \in ScalarExt, k \in 1 .. (E.n - 1)} :
        t.r # 0 /\ t.s # 0}

\* "verify with Emulated": s_inv, u1, u2, q of the reference computation.
Emulated(r, s, point, h) ==
    LET s_inv == ModInv(s, E.n)
        u1 == (h * s_inv) % E.n
        u2 == (r * s_inv) % E.n
        g1 == ScalarTimes(u1, E.generator)
        g2 == ScalarTimes(u2, point)
    IN [s_inv |-> s_inv, u1 |-> u1, u2 |-> u2, q |-> AddTable[g1, g2]]

\* The arguments of the current verify call.
Input == [r |-> sig.r, s |-> sig.s, pk |-> pk, msg_hash |-> msg_hash]

\* The number of components in which two argument tuples differ.
Distance(a, b) ==
    Cardinality({f \in {"r", "s", "pk", "msg_hash"} : a[f] # b[f]})

\* The current arguments are a valid signature with exactly one of r, s, the
\* public key or the hash replaced by a different value.
Tampered == \E t \in SignedTuples : Distance(t, Input) = 1

Returned == pc = "done"

AllReportOk == \A i \in DOMAIN log : log[i].report = "ok"

-----------------------------------------------------------------------------
(* The claims.                                                             *)

\* C1: for every key k # 0, hash h and nonce whose signature (r, s) has
\* r # 0 and s # 0, verify((r, s), k*G, h) returns Ok and none of its twelve
\* chip operations reports a failure (the chip layer reporting nothing beyond
\* what the values decide).
C1_ValidSignatureAccepted ==
    (Returned /\ Input \in SignedTuples /\ fault = NoFault)
        => (result = "Ok" /\ Len(log) = NumberOfCalls /\ AllReportOk)

C1_Witness ==
    /\ Returned /\ Input \in SignedTuples /\ fault = NoFault
    /\ result = "Ok"
    /\ OnScalar(loc.q[1] % E.p) # loc.q[1] % E.p

\* C2: whenever r = 0 or s = 0, verify fails, and the failure is raised by one
\* of the two nonzero assertions: no inversion, multiplication or curve
\* operation is ever issued, whatever the other arguments are.
C2_ZeroRejected ==
    (pc # "idle" /\ (sig.r = 0 \/ sig.s = 0))
        => /\ result # "Ok"
           /\ Len(log) <= 2
           /\ \A i \in DOMAIN log : log[i].op = "scalar.assert_not_zero"
           /\ Returned => (log # <<>> /\ log[Len(log)].raised
                           /\ result = log[Len(log)].report)

C2_Witness ==
    /\ Returned /\ sig.r # 0 /\ sig.s = 0 /\ fault = NoFault
    /\ Len(log) = 2 /\ result = "ZeroValueError"

\* C3 as stated: a valid signature with exactly one of r, s, the public key or
\* the hash replaced by a different value (s + 1 for s among them) is rejected.
C3_TamperRejected ==
    (Returned /\ fault = NoFault /\ Tampered) => result # "Ok"

\* C3 as amended: such a tampered tuple is rejected, by a nonzero assertion of
\* step 1 or by the x-coordinate equality of the last step, unless the tuple is
\* itself a tuple the signing procedure produces; replacing s by n - s is
\* accepted.
C3_TamperRejectedUnlessValid ==
    (Returned /\ fault = NoFault /\ Tampered)
        => /\ Input \notin SignedTuples
              => /\ result # "Ok"
                 /\ log[Len(log)].raised
                 /\ Len(log) \in {1, 2, NumberOfCalls}
                 /\ (sig.r # 0 /\ sig.s # 0) => Len(log) = NumberOfCalls
           /\ (\E t \in SignedTuples : Input = [t EXCEPT !.s = E.n - t.s])
              => result = "Ok"

C3_Witness ==
    /\ Returned /\ fault = NoFault /\ Tampered
    /\ Input \notin SignedTuples
    /\ sig.r # 0 /\ sig.s # 0
    /\ Len(log) = NumberOfCalls /\ result = "SynthesisError"
    /\ (\E t \in SignedTuples : Input = [t EXCEPT !.s = (t.s + 1) % E.n])

\* C4: both scalar multiplications are given the window size of the caller's
\* configuration (the one given to assign_aux), not a value verify fixes.
C4_WindowFromCaller ==
    fault = NoFault => \A i \in DOMAIN log : log[i].op = "ecc.mul" => log[i].window = window_size

\* C5: a chip operation that reports a failure is the last one verify issues,
\* verify returns that failure, and verify returns Ok only if every operation
\* succeeded.
C5_FailurePropagated ==
    /\ \A i \in DOMAIN log :
          log[i].report # "ok"
              => (i = Len(log) /\ Returned /\ result = log[i].report)
    /\ result = "Ok" => AllReportOk

\* The order and the data flow C6 states.
ExpectedOps ==
    <<"scalar.assert_not_zero", "scalar.assert_not_zero", "scalar.invert",
      "scalar.mul", "scalar.mul", "ecc.assign_point", "ecc.mul", "ecc.mul",
      "ecc.add", "base.reduce", "scalar.reduce", "scalar.assert_strict_equal">>

ExpectedArgs(i) ==
    CASE i = 1 -> <<sig.r>>
      [] i = 2 -> <<sig.s>>
      [] i = 3 -> <<sig.s>>
      [] i = 4 -> <<msg_hash, log[3].out>>
      [] i = 5 -> <<sig.r, log[3].out>>
      [] i = 6 -> <<E.generator>>
      [] i = 7 -> <<log[6].out, log[4].out>>
      [] i = 8 -> <<pk, log[5].out>>
      [] i = 9 -> <<log[7].out, log[8].out>>
      [] i = 10 -> <<log[9].out[1]>>
      [] i = 11 -> <<log[10].out>>
      [] i = 12 -> <<log[11].out, sig.r>>

\* C6: the operations are issued in the order of the twelve lines (assert r,
\* assert s, invert, two multiplications, assign the generator, two scalar
\* multiplications, add, reduce in the base field, reduce in the scalar field,
\* assert equality), each on the call's arguments and the outputs of earlier
\* operations, each issued only after its predecessor completed.
C6_OrderOfOperations ==
    /\ Len(log) <= NumberOfCalls
    /\ \A i \in DOMAIN log :
          /\ log[i].op = ExpectedOps[i]
          /\ log[i].args = ExpectedArgs(i)
          /\ i > 1 => (~log[i - 1].raised /\ log[i].before = log[i - 1].after)
    /\ result = "Ok" => Len(log) = NumberOfCalls

C6_Witness ==
    /\ Returned /\ result = "Ok" /\ Len(log) = NumberOfCalls
    /\ log[10].args # <<log[10].out>>

\* The operations of the current call, as Summary keeps them.
OpsIssued == [i \in DOMAIN log |-> <<log[i].op, log[i].window>>]

\* C7 as stated: two verify calls on the same circuit with different
\* signatures issue the same operations in the same order, none present in
\* one call and absent in the other.
C7_SameOperations ==
    (calls >= 2 /\ Returned /\ prev.sig # sig) => OpsIssued = prev.ops

\* C7 as amended: two verify calls issue the same operations in the same
\* order up to the point where one of them is ended by a failure a chip
\* operation raised; two calls that return Ok issue the same twelve.
C7_SameOperationsUntilFailure ==
    calls >= 2
        => /\ \A i \in DOMAIN log \cap DOMAIN prev.ops : OpsIssued[i] = prev.ops[i]
           /\ (Returned /\ result = "Ok" /\ prev.result = "Ok")
                 => OpsIssued = prev.ops

C7_Witness ==
    /\ calls = 2 /\ Returned /\ fault = NoFault
    /\ result = "Ok" /\ prev.result = "Ok"
    /\ prev.sig.r # sig.r /\ prev.sig.s # sig.s
    /\ Len(prev.ops) = NumberOfCalls

\* Every chip operation starts at the cursor its predecessor left, and a
\* later verify call starts from the cursor the earlier call left, advanced
\* by the caller's assignments.
CursorThreaded ==
    /\ offset >= entry
    /\ \A i \in DOMAIN log :
          /\ log[i].after >= log[i].before
          /\ log[i].before = (IF i = 1 THEN entry ELSE log[i - 1].after)
    /\ log # <<>> => offset = log[Len(log)].after
    /\ calls >= 2 => entry = prev.exit + AssignRows

\* C8: the cursor never decreases and is never reset; every chip operation
\* of verify receives the cursor as left by the previous operation, and a
\* later verify call starts from the cursor the earlier call left, also when
\* the earlier call failed part-way.
C8_CursorNeverDecreases ==
    []CursorThreaded /\ [][offset' >= offset]_vars

C8_Witness ==
    /\ calls = 2 /\ Returned
    /\ prev.result \notin {"Ok", "none"} /\ Len(prev.ops) \in 3 .. 11
    /\ result = "Ok"
    /\ entry > AssignRows

\* C9: the two multiplications are only ever given the true inverse of s, and
\* an invert that reports s not invertible ends verify with a failure.
C9_OnlyTrueInverse ==
    \A i \in DOMAIN log :
        /\ (log[i].op = "scalar.mul") => (log[i].args[2] * sig.s) % E.n = 1
        /\ (log[i].op = "scalar.invert" /\ log[i].report # "ok")
              => (i = Len(log) /\ Returned /\ result \notin {"none", "Ok"})

\* C10: for r # 0 and s # 0 the values verify computes are those of the
\* reference computation: w, u1, u2, Q = u1*G + u2*pk, and the value compared
\* with r is x(Q) reduced modulo p and then modulo n.
C10_MatchesReference ==
    (Returned /\ fault = NoFault /\ sig.r # 0 /\ sig.s # 0)
        => LET ref == Emulated(sig.r, sig.s, pk, msg_hash)
           IN /\ Len(log) = NumberOfCalls
              /\ loc.s_inv = ref.s_inv
              /\ loc.u1 = ref.u1
              /\ loc.u2 = ref.u2
              /\ loc.g1 = ScalarTimes(ref.u1, E.generator)
              /\ loc.g2 = ScalarTimes(ref.u2, pk)
              /\ <<loc.q[1] % E.p, loc.q[2] % E.p>> = ref.q
              /\ log[NumberOfCalls].args = <<(ref.q[1] % E.p) % E.n, sig.r>>

C10_Witness ==
    /\ Returned /\ fault = NoFault /\ sig.r # 0 /\ sig.s # 0
    /\ loc.u1 # loc.u2
    /\ loc.q[1] >= E.p
    /\ Emulated(sig.r, sig.s, pk, msg_hash).q[1] >= E.n

====
